---- MODULE Spec2Model ----
(***************************************************************************)
(* Recommendation service: the product-id cache of get_product_list, its  *)
(* feature-flag-controlled refresh with bounded FIFO eviction, the         *)
(* filtering/sampling selection and the request handler around them.       *)
(*                                                                         *)
(* Strings are sequences of one-character strings, so that ''.join and     *)
(* str.split(',') are computed character by character.  A Python list     *)
(* object that several names refer to is modelled by the name that owns it *)
(* (the global cached_ids) and an "alias" mark on every local that refers  *)
(* to the same object; rebinding the global freezes the aliases to the     *)
(* contents of the object they keep.                                       *)
(***************************************************************************)
EXTENDS Integers, Sequences, FiniteSets, TLC

\* ------------------------------------------------------------------ bounds
NumIds == 3            \* product ids the catalog can answer with
MaxResp == 3           \* longest catalog response (ids may repeat in it)
MaxRespConc == 1       \* the same, when the workers run concurrently
NumReqIds == 2         \* ids a request can carry (the first NumReqIds ids)
NumReqIdsConc == 1     \* the same, when the workers run concurrently
MaxRequests == 4       \* requests served in a run, one at a time
MaxRequestsConc == 3   \* requests served in a run by concurrent workers
MaxRequestsFair == 2   \* the same, where progress is checked
NumSelIds == 7         \* ids of the pools the selection step is tried on
MAX_CACHE_SIZE == 2    \* the configured cache limit, scaled down
max_responses == 5     \* recommendations returned at most

Threads == {1, 2}      \* workers of the server's thread pool that are modelled

\* ------------------------------------------------------------------ values
Digits == <<"1", "2", "3", "4", "5", "6", "7", "8", "9">>
Id(i) == <<"p", Digits[i]>>
Ids == {Id(i) : i \in 1..NumIds}
ReqIds == {Id(i) : i \in 1..NumReqIds}
ReqIdsConc == {Id(i) : i \in 1..NumReqIdsConc}
SelIds == {Id(i) : i \in 1..NumSelIds}

Unset == "unset"       \* a span attribute that was not set

SeqsUpTo(S, n) == UNION {[1..k -> S] : k \in 0..n}
Responses == SeqsUpTo(Ids, MaxResp)
ResponsesConc == SeqsUpTo(Ids, MaxRespConc)

Range(s) == {s[i] : i \in 1..Len(s)}
NoDup(s) == \A i, j \in 1..Len(s) : i # j => s[i] # s[j]
Min(a, b) == IF a < b THEN a ELSE b

\* ------------------------------------------------------------------ parsing
RECURSIVE Join(_)
\* ''.join(request_product_ids): the entries one after the other, nothing between
Join(entries) ==
    IF entries = <<>> THEN <<>> ELSE Head(entries) \o Join(Tail(entries))

RECURSIVE SplitFrom(_, _)
\* str.split(','): cur is the piece read so far, s the characters still to read
SplitFrom(cur, s) ==
    IF s = <<>> THEN <<cur>>
    ELSE IF Head(s) = "," THEN <<cur>> \o SplitFrom(<<>>, Tail(s))
    ELSE SplitFrom(Append(cur, Head(s)), Tail(s))

Split(s) == SplitFrom(<<>>, s)

ParseRequest(wire) == Split(Join(wire))

RECURSIVE SetToSeq(_)
\* list(a_set): the elements once each, in an order the program does not choose
SetToSeq(S) ==
    IF S = {} THEN <<>>
    ELSE LET x == CHOOSE y \in S : TRUE IN <<x>> \o SetToSeq(S \ {x})

RECURSIVE CommaJoin(_)
CommaJoin(ids) ==
    IF ids = <<>> THEN <<>>
    ELSE IF Len(ids) = 1 THEN Head(ids)
    ELSE Head(ids) \o <<",">> \o CommaJoin(Tail(ids))

\* The two encodings a client uses for the ids it carries: one string with the
\* ids comma-joined, or one repeated-field entry per id.
CommaJoinedWire(ids) == IF ids = <<>> THEN <<>> ELSE <<CommaJoin(ids)>>
RepeatedWire(ids) == ids

Requests(U) ==
    {[wire |-> CommaJoinedWire(SetToSeq(S)), carried |-> S] : S \in SUBSET U}
    \cup {[wire |-> RepeatedWire(SetToSeq(S)), carried |-> S] : S \in SUBSET U}

\* ------------------------------------------------------------------ cache
\* seq[-n:] of Python, for n >= 1: the last n elements, all of them when fewer
LastN(seq, n) ==
    IF Len(seq) <= n THEN seq ELSE SubSeq(seq, Len(seq) - n + 1, Len(seq))

\* ------------------------------------------------------------------ selection
RECURSIVE Samples(_, _)
\* random.sample(range(n), k): every sequence of k distinct indices (1..n here,
\* 0..n-1 in Python) can be drawn
Samples(n, k) ==
    IF k = 0 THEN {<<>>}
    ELSE UNION {{Append(s, i) : i \in (1..n) \ Range(s)} : s \in Samples(n, k - 1)}

\* ------------------------------------------------------------------ state
VARIABLES
    cached_ids,     \* the module-level list cached_ids
    first_run,      \* the module-level flag first_run
    th,             \* per worker: where it is in the handler, and its locals
    enabledSeen,    \* history: some request has seen the feature flag enabled
    decided,        \* history: some request has evaluated the refresh condition
    emptyResp,      \* history: the catalog has answered with an empty product list
    nreq,           \* history: requests received so far
    main,           \* the main program: where it is in startup, and its locals
    fetched         \* history: the ids of the answers to the refreshes' catalog calls

vars == <<cached_ids, first_run, th, enabledSeen, decided, emptyResp, nreq, main, fetched>>

\* The environment variables the main program reads
EnvKeys ==
    {"OTEL_SERVICE_NAME", "FLAGD_HOST", "FLAGD_PORT", "PRODUCT_CATALOG_ADDR",
     "RECOMMENDATION_PORT"}

\* The main program before its first statement, in environment env
MainAt(env) ==
    [pc |-> "service_name",
     env |-> env,
     flagd_host |-> "unset",         \* host given to FlagdProvider
     callback_defined |-> FALSE,     \* get_cache_size_callback exists
     handed |-> FALSE,               \* init_metrics was called with the callback
     instruments |-> {},             \* instruments created on the meter
     callbacks |-> {},               \* observation callbacks registered on the meter
     error |-> "none"]               \* the exception that ended the program

\* The servicer registered with a started server, as the handler finds it
Serving == [MainAt(EnvKeys) EXCEPT !.pc = "serving"]

\* A worker with no request: the locals of get_product_list do not exist.
IdleThread ==
    [pc |-> "idle",
     carried |-> {},                 \* history: the ids the request carried
     request_product_ids |-> <<>>,
     flag |-> FALSE,
     cache_enabled |-> Unset,        \* span attribute app.recommendation.cache_enabled
     cache_hit |-> Unset,            \* span attribute app.cache_hit
     truncated |-> Unset,            \* span attribute app.cache.truncated
     cache_size |-> -1,              \* span attribute app.cache.size, -1: not set
     response_ids |-> <<>>,
     existing_ids_set |-> {},
     idx |-> 0,                      \* position of the for loop in response_ids
     tmp |-> <<>>,                   \* the new list cached_ids[-MAX_CACHE_SIZE:]
     alias |-> FALSE,                \* product_ids is the list object cached_ids names
     product_ids |-> <<>>,           \* product_ids when it is a list of its own
     prod_list |-> <<>>,
     calls |-> 0,                    \* history: catalog calls of this request
     pre |-> <<>>,                   \* history: cached_ids when the request came in,
                                     \*   and again when its refresh read it
     draw |-> "none",                \* history: random.random() < 0.5 or not
     firstSeen |-> FALSE,            \* history: first request to see the flag enabled
     firstDecider |-> FALSE]         \* history: first request to evaluate line 83

Init ==
    /\ cached_ids = <<>>
    /\ first_run = TRUE
    /\ th = [t \in Threads |-> IdleThread]
    /\ enabledSeen = FALSE
    /\ decided = FALSE
    /\ emptyResp = FALSE
    /\ nreq = 0
    /\ main = Serving
    /\ fetched = {}

\* The list product_ids refers to
PoolOf(t) == IF th[t].alias THEN cached_ids ELSE th[t].product_ids

\* ------------------------------------------------------------------ handler
\* ListRecommendations calls get_product_list, which parses the ids
Receive(t, r) ==
    /\ th[t].pc = "idle"
    /\ th' = [th EXCEPT ![t] = [@ EXCEPT
                !.pc = "flag",
                !.carried = r.carried,
                !.request_product_ids = ParseRequest(r.wire),
                !.pre = cached_ids]]
    /\ nreq' = nreq + 1
    /\ UNCHANGED <<cached_ids, first_run, enabledSeen, decided, emptyResp, main, fetched>>

\* if check_feature_flag("recommendationCacheFailure")
CheckFeatureFlag(t, b) ==
    /\ th[t].pc = "flag"
    /\ th' = [th EXCEPT ![t] = [@ EXCEPT
                !.pc = IF b THEN "decide" ELSE "fetch_live",
                !.flag = b,
                !.cache_enabled = IF b THEN "True" ELSE "False",
                !.firstSeen = b /\ ~enabledSeen]]
    /\ enabledSeen' = (enabledSeen \/ b)
    /\ UNCHANGED <<cached_ids, first_run, decided, emptyResp, nreq, main, fetched>>

\* Mutation of Decide: "or first_run" is left out
Decide_DrawOnly(t, low) ==
    /\ th[t].pc = "decide"
    /\ th' = [th EXCEPT ![t] = [@ EXCEPT
                !.pc = IF low THEN "set_first_run" ELSE "hit_size",
                !.draw = IF low THEN "low" ELSE "high",
                !.firstDecider = ~decided]]
    /\ decided' = TRUE
    /\ UNCHANGED <<cached_ids, first_run, enabledSeen, emptyResp, nreq, main, fetched>>

\* Mutation of Decide: the latch is tested the wrong way round
Decide_Inverted(t, low) ==
    /\ th[t].pc = "decide"
    /\ th' = [th EXCEPT ![t] = [@ EXCEPT
                !.pc = IF low \/ ~first_run THEN "set_first_run" ELSE "hit_size",
                !.draw = IF low THEN "low" ELSE "high",
                !.firstDecider = ~decided]]
    /\ decided' = TRUE
    /\ UNCHANGED <<cached_ids, first_run, enabledSeen, emptyResp, nreq, main, fetched>>

\* if random.random() < 0.5 or first_run  (first_run is read only after a draw
\* that is not below 0.5)
Decide(t, low) ==
    /\ th[t].pc = "decide"
    /\ th' = [th EXCEPT ![t] = [@ EXCEPT
                !.pc = IF low \/ first_run THEN "set_first_run" ELSE "hit_size",
                !.draw = IF low THEN "low" ELSE "high",
                !.firstDecider = ~decided]]
    /\ decided' = TRUE
    /\ UNCHANGED <<cached_ids, first_run, enabledSeen, emptyResp, nreq, main, fetched>>

\* Mutation of SetFirstRun: the latch is not lowered before the catalog call
SetFirstRun_Skip(t) ==
    /\ th[t].pc = "set_first_run"
    /\ th' = [th EXCEPT ![t] = [@ EXCEPT !.pc = "call", !.cache_hit = "False"]]
    /\ UNCHANGED <<cached_ids, first_run, enabledSeen, decided, emptyResp, nreq, main, fetched>>

\* first_run = False; span.set_attribute("app.cache_hit", False)
SetFirstRun(t) ==
    /\ th[t].pc = "set_first_run"
    /\ first_run' = FALSE
    /\ th' = [th EXCEPT ![t] = [@ EXCEPT !.pc = "call", !.cache_hit = "False"]]
    /\ UNCHANGED <<cached_ids, enabledSeen, decided, emptyResp, nreq, main, fetched>>

\* cat_response = product_catalog_stub.ListProducts(...) answers;
\* response_ids = [x.id for x in cat_response.products]
CallOK(t, resp) ==
    /\ th[t].pc = "call"
    /\ th' = [th EXCEPT ![t] = [@ EXCEPT
                !.pc = "snapshot",
                !.response_ids = resp,
                !.calls = @ + 1]]
    /\ emptyResp' = (emptyResp \/ resp = <<>>)
    /\ fetched' = fetched \cup Range(resp)
    /\ UNCHANGED <<cached_ids, first_run, enabledSeen, decided, nreq, main>>

\* Mutation of CallFail: the cache is emptied when the catalog call fails
CallFail_Clear(t) ==
    /\ th[t].pc = "call"
    /\ cached_ids' = <<>>
    /\ th' = [th EXCEPT ![t] = [@ EXCEPT !.pc = "failed", !.calls = @ + 1]]
    /\ UNCHANGED <<first_run, enabledSeen, decided, emptyResp, nreq, main, fetched>>

\* ListProducts raises: the exception leaves get_product_list and
\* ListRecommendations, and the RPC ends with an error status
CallFail(t) ==
    /\ th[t].pc = "call"
    /\ th' = [th EXCEPT ![t] = [@ EXCEPT !.pc = "failed", !.calls = @ + 1]]
    /\ UNCHANGED <<cached_ids, first_run, enabledSeen, decided, emptyResp, nreq, main, fetched>>

\* Mutation of Snapshot: the refresh starts from an empty cache, which the
\* answer replaces
Snapshot_Reset(t) ==
    /\ th[t].pc = "snapshot"
    /\ cached_ids' = <<>>
    /\ th' = [th EXCEPT ![t] = [@ EXCEPT
                !.pc = IF th[t].response_ids = <<>> THEN "check_size" ELSE "merge",
                !.existing_ids_set = {},
                !.idx = 1,
                !.pre = cached_ids]]
    /\ UNCHANGED <<first_run, enabledSeen, decided, emptyResp, nreq, main, fetched>>

\* existing_ids_set = set(cached_ids)
Snapshot(t) ==
    /\ th[t].pc = "snapshot"
    /\ th' = [th EXCEPT ![t] = [@ EXCEPT
                !.pc = IF th[t].response_ids = <<>> THEN "check_size" ELSE "merge",
                !.existing_ids_set = Range(cached_ids),
                !.idx = 1,
                !.pre = cached_ids]]
    /\ UNCHANGED <<cached_ids, first_run, enabledSeen, decided, emptyResp, nreq, main, fetched>>

\* Mutation of Unseen: the membership test is dropped
Unseen_Always(product_id, existing_ids_set) == TRUE

\* product_id not in existing_ids_set
Unseen(product_id, existing_ids_set) == product_id \notin existing_ids_set

\* one iteration of: for product_id in response_ids
MergeStep(t) ==
    /\ th[t].pc = "merge"
    /\ LET product_id == th[t].response_ids[th[t].idx]
           new == Unseen(product_id, th[t].existing_ids_set)
       IN /\ cached_ids' = IF new THEN Append(cached_ids, product_id) ELSE cached_ids
          /\ th' = [th EXCEPT ![t] = [@ EXCEPT
                !.pc = IF th[t].idx = Len(th[t].response_ids)
                       THEN "check_size" ELSE "merge",
                !.existing_ids_set = IF new THEN @ \cup {product_id} ELSE @,
                !.idx = @ + 1]]
    /\ UNCHANGED <<first_run, enabledSeen, decided, emptyResp, nreq, main, fetched>>

\* Mutation of OverLimit: the limit is compared off by one
OverLimit_OffByOne(seq) == Len(seq) > MAX_CACHE_SIZE + 1

\* len(cached_ids) > MAX_CACHE_SIZE
OverLimit(seq) == Len(seq) > MAX_CACHE_SIZE

\* if len(cached_ids) > MAX_CACHE_SIZE
CheckSize(t) ==
    /\ th[t].pc = "check_size"
    /\ th' = [th EXCEPT ![t] = [@ EXCEPT
                !.pc = IF OverLimit(cached_ids) THEN "slice" ELSE "size_attr"]]
    /\ UNCHANGED <<cached_ids, first_run, enabledSeen, decided, emptyResp, nreq, main, fetched>>

\* Mutation of Truncate: cached_ids[:MAX_CACHE_SIZE], the newest entries dropped
Truncate_Head(seq) == SubSeq(seq, 1, Min(Len(seq), MAX_CACHE_SIZE))

\* cached_ids[-MAX_CACHE_SIZE:]
Truncate(seq) == LastN(seq, MAX_CACHE_SIZE)

\* the right-hand side of cached_ids = cached_ids[-MAX_CACHE_SIZE:], a new list
Slice(t) ==
    /\ th[t].pc = "slice"
    /\ th' = [th EXCEPT ![t] = [@ EXCEPT !.pc = "store", !.tmp = Truncate(cached_ids)]]
    /\ UNCHANGED <<cached_ids, first_run, enabledSeen, decided, emptyResp, nreq, main, fetched>>

\* the global cached_ids is bound to the new list; a product_ids that refers to
\* the old list keeps it; span.set_attribute("app.cache.truncated", True)
Store(t) ==
    /\ th[t].pc = "store"
    /\ cached_ids' = th[t].tmp
    /\ th' = [u \in Threads |->
                IF u = t
                THEN [th[u] EXCEPT !.pc = "size_attr", !.truncated = "True"]
                ELSE IF th[u].alias
                THEN [th[u] EXCEPT !.alias = FALSE, !.product_ids = cached_ids]
                ELSE th[u]]
    /\ UNCHANGED <<first_run, enabledSeen, decided, emptyResp, nreq, main, fetched>>

\* span.set_attribute("app.cache.size", len(cached_ids)) of the miss branch
SizeAttr(t) ==
    /\ th[t].pc = "size_attr"
    /\ th' = [th EXCEPT ![t] = [@ EXCEPT
                !.pc = "miss_pool", !.cache_size = Len(cached_ids)]]
    /\ UNCHANGED <<cached_ids, first_run, enabledSeen, decided, emptyResp, nreq, main, fetched>>

\* product_ids = cached_ids of the miss branch
MissPool(t) ==
    /\ th[t].pc = "miss_pool"
    /\ th' = [th EXCEPT ![t] = [@ EXCEPT !.pc = "select", !.alias = TRUE]]
    /\ UNCHANGED <<cached_ids, first_run, enabledSeen, decided, emptyResp, nreq, main, fetched>>

\* Mutation of HitSize: the hit branch waits while another worker refreshes
HitSize_Wait(t) ==
    /\ th[t].pc = "hit_size"
    /\ \A u \in Threads \ {t} :
            th[u].pc \notin {"call", "snapshot", "merge", "check_size", "slice", "store"}
    /\ th' = [th EXCEPT ![t] = [@ EXCEPT
                !.pc = "hit_pool",
                !.cache_hit = "True",
                !.cache_size = Len(cached_ids)]]
    /\ UNCHANGED <<cached_ids, first_run, enabledSeen, decided, emptyResp, nreq, main, fetched>>

\* the else branch: app.cache_hit True, app.cache.size
HitSize(t) ==
    /\ th[t].pc = "hit_size"
    /\ th' = [th EXCEPT ![t] = [@ EXCEPT
                !.pc = "hit_pool",
                !.cache_hit = "True",
                !.cache_size = Len(cached_ids)]]
    /\ UNCHANGED <<cached_ids, first_run, enabledSeen, decided, emptyResp, nreq, main, fetched>>

\* product_ids = cached_ids of the else branch
HitPool(t) ==
    /\ th[t].pc = "hit_pool"
    /\ th' = [th EXCEPT ![t] = [@ EXCEPT !.pc = "select", !.alias = TRUE]]
    /\ UNCHANGED <<cached_ids, first_run, enabledSeen, decided, emptyResp, nreq, main, fetched>>

\* Mutation of FetchLive: the live answer is also written to the cache
FetchLive_Caching(t, resp) ==
    /\ th[t].pc = "fetch_live"
    /\ cached_ids' = resp
    /\ th' = [th EXCEPT ![t] = [@ EXCEPT
                !.pc = "select",
                !.response_ids = resp,
                !.product_ids = resp,
                !.calls = @ + 1]]
    /\ emptyResp' = (emptyResp \/ resp = <<>>)
    /\ UNCHANGED <<first_run, enabledSeen, decided, nreq, main, fetched>>

\* flag off: ListProducts answers; product_ids = [x.id for x in ...products]
FetchLive(t, resp) ==
    /\ th[t].pc = "fetch_live"
    /\ th' = [th EXCEPT ![t] = [@ EXCEPT
                !.pc = "select",
                !.response_ids = resp,
                !.product_ids = resp,
                !.calls = @ + 1]]
    /\ emptyResp' = (emptyResp \/ resp = <<>>)
    /\ UNCHANGED <<cached_ids, first_run, enabledSeen, decided, nreq, main, fetched>>

\* flag off: ListProducts raises
FetchLiveFail(t) ==
    /\ th[t].pc = "fetch_live"
    /\ th' = [th EXCEPT ![t] = [@ EXCEPT !.pc = "failed", !.calls = @ + 1]]
    /\ UNCHANGED <<cached_ids, first_run, enabledSeen, decided, emptyResp, nreq, main, fetched>>

\* Mutation of Filtered: the pool is filtered as a list, not as a set
Filtered_NoSet(product_ids, request_product_ids) ==
    SelectSeq(product_ids, LAMBDA x : x \notin Range(request_product_ids))

\* list(set(product_ids) - set(request_product_ids))
Filtered(product_ids, request_product_ids) ==
    SetToSeq(Range(product_ids) \ Range(request_product_ids))

\* min(max_responses, num_products)
NumReturn(num_products) == Min(max_responses, num_products)

\* [filtered_products[i] for i in indices]
Pick(filtered_products, indices) ==
    [i \in 1..Len(indices) |-> filtered_products[indices[i]]]

\* Mutation of Select: the pool is filtered in place
Select_InPlace(t) ==
    /\ th[t].pc = "select"
    /\ LET filtered_products == Filtered(PoolOf(t), th[t].request_product_ids)
           num_products == Len(filtered_products)
           num_return == NumReturn(num_products)
       IN /\ \E indices \in Samples(num_products, num_return) :
                th' = [th EXCEPT ![t] = [@ EXCEPT
                        !.pc = "done",
                        !.prod_list = Pick(filtered_products, indices)]]
          /\ cached_ids' = IF th[t].alias THEN filtered_products ELSE cached_ids
    /\ UNCHANGED <<first_run, enabledSeen, decided, emptyResp, nreq, main, fetched>>

\* filtering and sampling, to the return of get_product_list
Select(t) ==
    /\ th[t].pc = "select"
    /\ LET filtered_products == Filtered(PoolOf(t), th[t].request_product_ids)
           num_products == Len(filtered_products)
           num_return == NumReturn(num_products)
       IN \E indices \in Samples(num_products, num_return) :
            th' = [th EXCEPT ![t] = [@ EXCEPT
                    !.pc = "done",
                    !.prod_list = Pick(filtered_products, indices)]]
    /\ UNCHANGED <<cached_ids, first_run, enabledSeen, decided, emptyResp, nreq, main, fetched>>

\* ListRecommendations builds the response from prod_list and returns it
Return(t) ==
    /\ th[t].pc = "done"
    /\ th' = [th EXCEPT ![t] = IdleThread]
    /\ UNCHANGED <<cached_ids, first_run, enabledSeen, decided, emptyResp, nreq, main, fetched>>

\* the failed RPC is over; the worker takes the next request
Abort(t) ==
    /\ th[t].pc = "failed"
    /\ th' = [th EXCEPT ![t] = IdleThread]
    /\ UNCHANGED <<cached_ids, first_run, enabledSeen, decided, emptyResp, nreq, main, fetched>>

\* One step of worker t, its requests drawn from reqs and the catalog's answers
\* from resps, in a run of at most max requests; it takes a request only while
\* the workers in quiet are idle
Step(t, reqs, resps, max, quiet) ==
    \/ /\ nreq < max
       /\ \A u \in quiet : th[u].pc = "idle"
       /\ \E r \in reqs : Receive(t, r)
    \/ \E b \in BOOLEAN : CheckFeatureFlag(t, b)
    \/ \E low \in BOOLEAN : Decide(t, low)
    \/ SetFirstRun(t)
    \/ \E resp \in resps : CallOK(t, resp)
    \/ CallFail(t)
    \/ Snapshot(t)
    \/ MergeStep(t)
    \/ CheckSize(t)
    \/ Slice(t)
    \/ Store(t)
    \/ SizeAttr(t)
    \/ MissPool(t)
    \/ HitSize(t)
    \/ HitPool(t)
    \/ \E resp \in resps : FetchLive(t, resp)
    \/ FetchLiveFail(t)
    \/ Select(t)
    \/ Return(t)
    \/ Abort(t)

\* The workers of the thread pool run the handler concurrently.
Next ==
    \E t \in Threads :
        Step(t, Requests(ReqIdsConc), ResponsesConc, MaxRequestsConc, {})

Spec == Init /\ [][Next]_vars

\* Requests executed one at a time: a worker takes a request only while the
\* others are idle.
NextSeq ==
    \E t \in Threads :
        Step(t, Requests(ReqIds), Responses, MaxRequests, Threads \ {t})

SpecSeq == Init /\ [][NextSeq]_vars

\* ------------------------------------------------------------------ progress
\* The steps of worker t that wait for nothing outside the process: all but the
\* arrival of a request and the end of a catalog call
Local(t) ==
    \/ \E b \in BOOLEAN : CheckFeatureFlag(t, b)
    \/ \E low \in BOOLEAN : Decide(t, low)
    \/ SetFirstRun(t)
    \/ Snapshot(t)
    \/ MergeStep(t)
    \/ CheckSize(t)
    \/ Slice(t)
    \/ Store(t)
    \/ SizeAttr(t)
    \/ MissPool(t)
    \/ HitSize(t)
    \/ HitPool(t)
    \/ Select(t)
    \/ Return(t)
    \/ Abort(t)

\* Catalog answers where progress is checked: two of them overflow the cache
ResponsesFair == {<<>>, <<Id(1), Id(2)>>, <<Id(3)>>}

\* Requests where progress is checked: nothing to exclude
RequestsFair == Requests({})

NextFair ==
    \E t \in Threads :
        Step(t, RequestsFair, ResponsesFair, MaxRequestsFair, {})

\* Every worker thread that can run is run eventually; when the catalog answers
\* is left open.
SpecFair == Init /\ [][NextFair]_vars /\ \A t \in Threads : WF_vars(Local(t))

\* ------------------------------------------------------------------ selection alone
\* The pools the selection step is tried on: every set of SelIds as a list, and
\* the same list with its first id repeated at the end.
SelPools ==
    {SetToSeq(S) : S \in SUBSET SelIds}
    \cup {SetToSeq(S) \o <<SetToSeq(S)[1]>> : S \in (SUBSET SelIds) \ {{}}}

\* A flag-off request that has just fetched pool P from the catalog.
InitSelect ==
    /\ cached_ids = <<>>
    /\ first_run = TRUE
    /\ enabledSeen = FALSE
    /\ decided = FALSE
    /\ nreq = 1
    /\ main = Serving
    /\ fetched = {}
    /\ \E P \in SelPools, r \in Requests(ReqIds) :
         /\ emptyResp = (P = <<>>)
         /\ th = [t \in Threads |->
                    IF t = 1
                    THEN [IdleThread EXCEPT
                            !.pc = "select",
                            !.carried = r.carried,
                            !.request_product_ids = ParseRequest(r.wire),
                            !.cache_enabled = "False",
                            !.response_ids = P,
                            !.product_ids = P,
                            !.calls = 1]
                    ELSE IdleThread]

NextSelect == \E t \in Threads : Select(t) \/ Return(t)

SpecSelect == InitSelect /\ [][NextSelect]_vars

\* ------------------------------------------------------------------ startup
\* def init_metrics(meter): the parameters, none with a default
init_metrics_params == <<"meter">>

\* init_metrics(meter, cache_size_callback=get_cache_size_callback): the call
init_metrics_call == [positional |-> <<"meter">>, keywords |-> {"cache_size_callback"}]

\* Python binds the arguments of call to params: no more positional arguments
\* than parameters, every keyword names a parameter not yet bound, and every
\* parameter (none has a default) is bound
Binds(params, call) ==
    LET rest == {params[i] : i \in (Len(call.positional) + 1)..Len(params)}
    IN /\ Len(call.positional) <= Len(params)
       /\ call.keywords = rest

\* The body of init_metrics: a counter and a histogram are created on the
\* meter and returned; no observable instrument, no callback
init_metrics_instruments == {"app_recommendations_counter", "app_recommendation_cache_size"}
init_metrics_callbacks == {}

\* service_name = must_map_env('OTEL_SERVICE_NAME')
MustMapServiceName ==
    /\ main.pc = "service_name"
    /\ main' = IF "OTEL_SERVICE_NAME" \in main.env
               THEN [main EXCEPT !.pc = "set_provider"]
               ELSE [main EXCEPT !.pc = "exited", !.error = "Exception"]
    /\ UNCHANGED <<cached_ids, first_run, th, enabledSeen, decided, emptyResp, nreq, fetched>>

\* api.set_provider(FlagdProvider(host=os.environ.get('FLAGD_HOST', 'flagd'), ...))
\* and api.add_hooks
SetProvider ==
    /\ main.pc = "set_provider"
    /\ main' = [main EXCEPT
                !.pc = "get_meter",
                !.flagd_host = IF "FLAGD_HOST" \in main.env THEN "FLAGD_HOST" ELSE "flagd"]
    /\ UNCHANGED <<cached_ids, first_run, th, enabledSeen, decided, emptyResp, nreq, fetched>>

\* tracer = ...get_tracer(service_name); meter = ...get_meter(service_name)
GetMeter ==
    /\ main.pc = "get_meter"
    /\ main' = [main EXCEPT !.pc = "def_callback"]
    /\ UNCHANGED <<cached_ids, first_run, th, enabledSeen, decided, emptyResp, nreq, fetched>>

\* def get_cache_size_callback(options): ...
DefCallback ==
    /\ main.pc = "def_callback"
    /\ main' = [main EXCEPT !.pc = "init_metrics", !.callback_defined = TRUE]
    /\ UNCHANGED <<cached_ids, first_run, th, enabledSeen, decided, emptyResp, nreq, fetched>>

\* rec_svc_metrics = init_metrics(meter, cache_size_callback=get_cache_size_callback):
\* TypeError when the arguments do not bind, else the body of init_metrics
InitMetrics ==
    /\ main.pc = "init_metrics"
    /\ main' = IF Binds(init_metrics_params, init_metrics_call)
               THEN [main EXCEPT
                        !.pc = "init_logs",
                        !.handed = TRUE,
                        !.instruments = init_metrics_instruments,
                        !.callbacks = init_metrics_callbacks]
               ELSE [main EXCEPT
                        !.pc = "exited",
                        !.handed = TRUE,
                        !.error = "TypeError"]
    /\ UNCHANGED <<cached_ids, first_run, th, enabledSeen, decided, emptyResp, nreq, fetched>>

\* The process as started, in any environment
InitStartup ==
    /\ cached_ids = <<>>
    /\ first_run = TRUE
    /\ th = [t \in Threads |-> IdleThread]
    /\ enabledSeen = FALSE
    /\ decided = FALSE
    /\ emptyResp = FALSE
    /\ nreq = 0
    /\ fetched = {}
    /\ \E env \in SUBSET EnvKeys : main = MainAt(env)

\* The statements of the main program up to the call of init_metrics; no run
\* gets past that call.
NextStartup ==
    \/ MustMapServiceName
    \/ SetProvider
    \/ GetMeter
    \/ DefCallback
    \/ InitMetrics

SpecStartup == InitStartup /\ [][NextStartup]_vars

\* ------------------------------------------------------------------ claims
\* A worker in the miss branch whose merge and truncation are over
Refreshed(t) ==
    /\ th[t].pc \in {"size_attr", "miss_pool", "select"}
    /\ th[t].cache_hit = "False"

\* C1. Dedup invariant: with requests executed one at a time, from the empty
\* cache, cached_ids never contains a product id more than once, whatever the
\* flag, the draws, the catalog's failures and its (possibly repeating) answers.
C1_Dedup == NoDup(cached_ids)

\* C1 witness: a refresh has merged an answer that repeats an id and holds an id
\* that was cached already.
C1_Witness ==
    \E t \in Threads :
        /\ Refreshed(t)
        /\ ~NoDup(th[t].response_ids)
        /\ Range(th[t].response_ids) \cap Range(th[t].pre) # {}
        /\ Range(th[t].response_ids) \ Range(th[t].pre) # {}

\* C2. Bound invariant: when a refresh (a cache-enabled request in the miss
\* branch) is over, len(cached_ids) <= MAX_CACHE_SIZE and the pool handed to the
\* selection has at most MAX_CACHE_SIZE entries.
C2_Bound ==
    \A t \in Threads :
        (th[t].pc \in {"size_attr", "miss_pool", "select"} /\ th[t].cache_hit = "False")
            => /\ Len(cached_ids) <= MAX_CACHE_SIZE
               /\ (th[t].pc = "select" => Len(PoolOf(t)) <= MAX_CACHE_SIZE)

\* C2 witness: a refresh that overflowed the limit hands its pool to the selection.
C2_Witness ==
    \E t \in Threads :
        /\ th[t].pc = "select"
        /\ th[t].cache_hit = "False"
        /\ th[t].truncated = "True"
        /\ Len(PoolOf(t)) = MAX_CACHE_SIZE

RECURSIVE NewIds(_, _)
\* The ids of answer R that are not in seen, each once, by first occurrence
NewIds(seen, R) ==
    IF R = <<>> THEN <<>>
    ELSE IF Head(R) \in seen THEN NewIds(seen, Tail(R))
    ELSE <<Head(R)>> \o NewIds(seen \cup {Head(R)}, Tail(R))

\* s is t with a (possibly empty) prefix dropped
IsSuffix(s, t) == Len(s) <= Len(t) /\ s = SubSeq(t, Len(t) - Len(s) + 1, Len(t))

\* C3. Oldest-first eviction: a refresh on pool C with catalog answer R leaves
\* the last MAX_CACHE_SIZE elements of C ++ N, N being the ids of R not in C,
\* each once, by first occurrence; so only a prefix is dropped, and the length
\* is exactly MAX_CACHE_SIZE when C ++ N is longer than that.
C3_OldestFirst ==
    \A t \in Threads :
        Refreshed(t) =>
            LET C == th[t].pre
                all == C \o NewIds(Range(C), th[t].response_ids)
            IN /\ cached_ids = LastN(all, MAX_CACHE_SIZE)
               /\ IsSuffix(cached_ids, all)
               /\ (Len(all) > MAX_CACHE_SIZE => Len(cached_ids) = MAX_CACHE_SIZE)

\* C3 witness: a refresh on a full pool whose answer holds a cached id and a new
\* one has evicted the oldest entry and kept a younger one.
C3_Witness ==
    \E t \in Threads :
        /\ Refreshed(t)
        /\ Len(th[t].pre) = MAX_CACHE_SIZE
        /\ th[t].truncated = "True"
        /\ Range(th[t].response_ids) \cap Range(th[t].pre) # {}
        /\ th[t].pre[1] \notin Range(cached_ids)
        /\ th[t].pre[Len(th[t].pre)] \in Range(cached_ids)

\* A worker past the choice between refresh and cache hit, on the hit side
OnHitSide(t) == th[t].pc \in {"hit_size", "hit_pool"}

\* C4 as stated. First-run force-refresh: the first request that sees the
\* feature flag enabled calls the catalog, whatever its draw.
C4_FirstSeenRefreshes ==
    \A t \in Threads :
        (th[t].firstSeen /\ (OnHitSide(t) \/ th[t].pc \in {"select", "done"}))
            => th[t].calls >= 1

\* C4 amended. The first request that evaluates the refresh condition never
\* takes the hit branch: once past the call it has called the catalog.
C4_FirstDeciderRefreshes ==
    \A t \in Threads :
        th[t].firstDecider =>
            /\ ~OnHitSide(t)
            /\ (th[t].pc \notin {"set_first_run", "call"} => th[t].calls = 1)

\* C4 witness: the first request to decide drew 0.5 or more, came after another
\* request, and has returned after one catalog call.
C4_Witness ==
    \E t \in Threads :
        /\ th[t].firstDecider
        /\ th[t].draw = "high"
        /\ th[t].pc = "done"
        /\ th[t].calls = 1
        /\ nreq >= 2

\* C5 as stated. The cache is never served empty: when the catalog's successful
\* answers are non-empty, a request in the hit branch finds cached_ids non-empty.
C5_NeverServedEmpty ==
    ~emptyResp => \A t \in Threads : OnHitSide(t) => cached_ids # <<>>

\* A step of worker t itself
Moves(t) == th'[t].pc # th[t].pc

\* Worker t is on the flag-off path: it has just seen the flag false, or is
\* fetching live, or is selecting from or returning what it fetched
FlagOffStep(t) ==
    \/ th[t].pc = "flag" /\ th'[t].pc = "fetch_live"
    \/ th[t].pc = "fetch_live"
    \/ th[t].pc \in {"select", "done", "failed"} /\ th[t].cache_enabled = "False"

\* C6. Cache-disabled bypass: no step of a request that sees the flag false
\* changes cached_ids or first_run; its pool is a list of its own (not the
\* cache's), equal to the id list of the one catalog call it made.
C6_Bypass ==
    [][\A t \in Threads :
        (Moves(t) /\ FlagOffStep(t)) =>
            /\ cached_ids' = cached_ids
            /\ first_run' = first_run
            /\ (th'[t].pc \in {"select", "done"} =>
                    /\ th'[t].calls = 1
                    /\ ~th'[t].alias
                    /\ th'[t].product_ids = th'[t].response_ids)
            /\ (th'[t].pc = "failed" => th'[t].calls = 1)]_vars

\* C6 witness: a flag-off request selects from a live answer that differs from
\* the non-empty cache, the latch being already down.
C6_Witness ==
    \E t \in Threads :
        /\ th[t].pc = "select"
        /\ th[t].cache_enabled = "False"
        /\ cached_ids # <<>>
        /\ ~first_run
        /\ th[t].product_ids # cached_ids
        /\ th[t].product_ids # <<>>

\* Worker t is on the cache-hit path
HitStep(t) ==
    \/ th[t].pc = "decide" /\ th'[t].pc = "hit_size"
    \/ OnHitSide(t)
    \/ th[t].pc \in {"select", "done"} /\ th[t].cache_hit = "True"

\* C7. Cache hit: a cache-enabled request that finds first_run false after a
\* draw of 0.5 or more takes the hit branch; no step of the hit branch calls
\* the catalog or changes cached_ids or first_run, and the pool it hands to
\* the selection is the list cached_ids names.
C7_CacheHit ==
    [][\A t \in Threads :
        Moves(t) =>
            /\ (th[t].pc = "decide" /\ ~first_run /\ th'[t].draw = "high")
                    => th'[t].pc = "hit_size"
            /\ HitStep(t) =>
                    /\ cached_ids' = cached_ids
                    /\ first_run' = first_run
                    /\ th'[t].calls = 0
                    /\ (th'[t].pc = "select" =>
                            th'[t].alias /\ th'[t].product_ids = <<>>)]_vars

\* C7 witness: a request in the hit branch is about to select from the
\* non-empty cache, having made no catalog call.
C7_Witness ==
    \E t \in Threads :
        /\ th[t].pc = "select"
        /\ th[t].cache_hit = "True"
        /\ th[t].draw = "high"
        /\ th[t].alias
        /\ th[t].calls = 0
        /\ cached_ids # <<>>

\* C8. Catalog failure, requests one at a time: the request that fails returns
\* no list, cached_ids is what it was when the request came in and stays so
\* while the failure is reported, and the worker is then free for the next
\* request with nothing of the failed one left.
C8_Failure ==
    [][\A t \in Threads :
        th[t].pc = "failed" =>
            /\ th[t].prod_list = <<>>
            /\ th[t].calls = 1
            /\ cached_ids = th[t].pre
            /\ cached_ids' = cached_ids
            /\ (Moves(t) => th'[t] = IdleThread)]_vars

\* C8 witness: a refresh fails on a non-empty cache after earlier requests.
C8_Witness ==
    \E t \in Threads :
        /\ th[t].pc = "failed"
        /\ th[t].cache_enabled = "True"
        /\ cached_ids # <<>>
        /\ nreq >= 2

\* The ids the selection may return for worker t
Candidates(t) == Range(PoolOf(t)) \ Range(th[t].request_product_ids)

\* C9. Selector correctness: for every pool P (ids may repeat, may be empty)
\* and exclusion list E the selection step can be taken, and returns exactly
\* min(5, |set(P) - E|) pairwise distinct members of set(P) - E.
C9_Selector ==
    \A t \in Threads :
        /\ th[t].pc = "select" => ENABLED Select(t)
        /\ th[t].pc = "done" =>
            /\ Len(th[t].prod_list) = Min(max_responses, Cardinality(Candidates(t)))
            /\ Range(th[t].prod_list) \subseteq Candidates(t)
            /\ NoDup(th[t].prod_list)

\* C9 witness: from a pool that repeats an id and holds an excluded id, with
\* more candidates than max_responses, exactly max_responses ids are returned.
C9_Witness ==
    \E t \in Threads :
        /\ th[t].pc = "done"
        /\ ~NoDup(PoolOf(t))
        /\ Range(PoolOf(t)) \cap Range(th[t].request_product_ids) # {}
        /\ Cardinality(Candidates(t)) > max_responses
        /\ Len(th[t].prod_list) = max_responses

\* C10 as stated. Exclusion end to end: no id returned is one of the product
\* ids the request carried, in either encoding.
C10_Exclusion ==
    \A t \in Threads :
        th[t].pc = "done" => Range(th[t].prod_list) \cap th[t].carried = {}

\* A worker in the miss branch, past first_run = False
AfterLatch(t) ==
    \/ th[t].pc \in {"call", "snapshot", "merge", "check_size", "slice", "store",
                     "size_attr", "miss_pool"}
    \/ th[t].pc \in {"select", "done"} /\ th[t].cache_hit = "False"
    \/ th[t].pc = "failed" /\ th[t].cache_enabled = "True"

\* C11. First-run latch: first_run is true until a cache-enabled request has
\* decided; it is lowered by a request that decided to refresh, before its
\* catalog call, so it is false for every request at or past that call, also
\* one whose call failed; once false it stays false; no step of a flag-off
\* request changes it.
C11_Latch ==
    [][/\ (~decided => first_run)
       /\ (~first_run => ~first_run')
       /\ (first_run /\ ~first_run' =>
                \E t \in Threads : th[t].pc = "set_first_run" /\ th'[t].pc = "call")
       /\ \A t \in Threads :
            /\ AfterLatch(t)' => ~first_run'
            /\ (Moves(t) /\ FlagOffStep(t)) => first_run' = first_run]_vars

\* C11 witness: the first request to decide has failed in its catalog call and
\* the latch is down.
C11_Witness ==
    \E t \in Threads :
        /\ th[t].pc = "failed"
        /\ th[t].firstDecider
        /\ th[t].cache_enabled = "True"
        /\ ~first_run
        /\ cached_ids = <<>>

\* Worker t read first_run as true: only that sends a draw of 0.5 or more to
\* the miss branch
SawFirstRun(t) ==
    th[t].draw = "high" /\ (th[t].pc = "set_first_run" \/ AfterLatch(t))

\* C12 as stated. First-run atomicity: at most one request at a time has read
\* first_run as true and is performing the forced refresh.
C12_OneObserver == Cardinality({t \in Threads : SawFirstRun(t)}) <= 1

\* C13 as stated. Dedup under concurrency: cached_ids holds no product id
\* twice in any state concurrent refreshes can reach.
C13_DedupConcurrent == Cardinality(Range(cached_ids)) = Len(cached_ids)

\* C14 as stated. Size bound as observed: no cache-enabled request reports an
\* app.cache.size above MAX_CACHE_SIZE or is handed a pool from cached_ids
\* with more than MAX_CACHE_SIZE entries.
C14_SizeObserved ==
    \A t \in Threads :
        /\ th[t].cache_size <= MAX_CACHE_SIZE
        /\ (th[t].pc = "select" /\ th[t].cache_enabled = "True")
                => Len(PoolOf(t)) <= MAX_CACHE_SIZE

\* Worker t is inside a catalog call
InCatalogCall(t) == th[t].pc \in {"call", "fetch_live"}

\* C15. A slow catalog fetch blocks only its own worker: every request returns
\* or fails unless its own catalog call never ends, whatever the other workers
\* do, also while one of them stays inside its catalog call for ever. So with
\* a catalog that answers in the end every request returns or fails.
C15_Progress ==
    \A t \in Threads :
        (th[t].pc # "idle") ~> (th[t].pc = "idle" \/ <>[]InCatalogCall(t))

\* C15 witness: one worker is inside the catalog call of its refresh while
\* another has served a request from the cache.
C15_Witness ==
    \E t, u \in Threads :
        /\ th[t].pc = "call"
        /\ th[u].pc = "done"
        /\ th[u].cache_hit = "True"


\* A cache-enabled request that hands its pool to the selection
AtSelection(t) == th[t].pc = "select" /\ th[t].cache_enabled = "True"

\* The pool this request's own merge builds: the snapshot followed by the ids
\* of its answer that the snapshot lacks
OwnMerge(t) == th[t].pre \o NewIds(Range(th[t].pre), th[t].response_ids)

\* C16. Hit/miss and truncation indicators match what happened: when a
\* cache-enabled request hands its pool to the selection, app.cache_hit is False
\* exactly when it called the catalog and True exactly when it did not,
\* app.cache.truncated is True exactly when its own merge made the pool longer
\* than MAX_CACHE_SIZE, and app.cache.size is the length of that pool.
C16_Indicators ==
    \A t \in Threads :
        AtSelection(t) =>
            /\ (th[t].cache_hit = "False") <=> (th[t].calls = 1)
            /\ (th[t].cache_hit = "True") <=> (th[t].calls = 0)
            /\ (th[t].truncated = "True") <=>
                    (th[t].calls = 1 /\ Len(OwnMerge(t)) > MAX_CACHE_SIZE)
            /\ th[t].cache_size = Len(PoolOf(t))


\* C17. The cache size is read by telemetry through an observation callback:
\* once startup has handed get_cache_size_callback to init_metrics, the call
\* has been accepted, the callback is registered on the meter, and startup goes
\* on towards creating and starting the server.
C17_CallbackRegistered ==
    main.handed =>
        /\ main.pc # "exited"
        /\ main.error = "none"
        /\ "get_cache_size_callback" \in main.callbacks

\* C18. Provenance: every id in cached_ids was contained in a successful
\* catalog answer received by a cache-enabled refresh; ids fetched with the
\* flag off and ids carried in requests never enter the cache.
C18_Provenance == Range(cached_ids) \subseteq fetched

\* C18 witness: the cache holds ids while a flag-off request, which carried an
\* id the cache lacks, has fetched an id the cache lacks.
C18_Witness ==
    \E t \in Threads :
        /\ cached_ids # <<>>
        /\ th[t].pc = "select"
        /\ th[t].cache_enabled = "False"
        /\ th[t].carried \ Range(cached_ids) # {}
        /\ Range(th[t].product_ids) \ Range(cached_ids) # {}


\* s is t with a (possibly empty) suffix dropped
IsPrefix(s, t) == Len(s) <= Len(t) /\ s = SubSeq(t, 1, Len(s))

\* C19. Eviction only on overflow: with requests executed one at a time, a step
\* either appends to cached_ids (or leaves it alone) or cuts a list longer than
\* MAX_CACHE_SIZE down to its last MAX_CACHE_SIZE entries; and a refresh on
\* pool C with new ids N, len(C) + len(N) <= MAX_CACHE_SIZE, leaves C ++ N,
\* of which C is a prefix.
C19_EvictionOnlyOnOverflow ==
    [][/\ \/ IsPrefix(cached_ids, cached_ids')
          \/ /\ Len(cached_ids) > MAX_CACHE_SIZE
             /\ cached_ids' = LastN(cached_ids, MAX_CACHE_SIZE)
       /\ \A t \in Threads :
            (Refreshed(t)' /\ Len(OwnMerge(t)') <= MAX_CACHE_SIZE)
                => /\ cached_ids' = OwnMerge(t)'
                   /\ IsPrefix(th'[t].pre, cached_ids')]_vars

\* C19 witness: a refresh without overflow is over, and an id that its answer
\* (which brought a new id) lacks is still cached.
C19_Witness ==
    \E t \in Threads :
        /\ Refreshed(t)
        /\ Len(OwnMerge(t)) <= MAX_CACHE_SIZE
        /\ Range(th[t].response_ids) \ Range(th[t].pre) # {}
        /\ (Range(th[t].pre) \ Range(th[t].response_ids)) \cap Range(cached_ids) # {}

\* Worker t takes the selection step of a cache-enabled request
SelectStep(t) ==
    /\ th[t].pc = "select"
    /\ th'[t].pc = "done"
    /\ th[t].cache_enabled = "True"

\* C20. Selection does not write the cache: the filtering and sampling step of
\* a cache-enabled request, whose pool is the list cached_ids names (or named,
\* before another worker rebound it), leaves cached_ids (contents and order)
\* and first_run as they were, for every exclusion set and every sample, also
\* beside concurrent workers.
C20_SelectionReadOnly ==
    [][\A t \in Threads :
        SelectStep(t) =>
            /\ cached_ids' = cached_ids
            /\ first_run' = first_run]_vars

\* C20 witness: a cache-enabled request has selected from a cache that holds an
\* id the request excluded, and the cache still holds it.
C20_Witness ==
    \E t \in Threads :
        /\ th[t].pc = "done"
        /\ th[t].cache_enabled = "True"
        /\ th[t].alias
        /\ th[t].prod_list # <<>>
        /\ Range(th[t].request_product_ids) \cap Range(cached_ids) # {}

====
